---- MODULE Spec2Model ----
(***************************************************************************)
(* A model of immudb_wrapper.ImmudbWrapper: the retry wrapper, the ledger  *)
(* session (login, verified_set, verified_get), the record construction    *)
(* of notarize_file / notarize_git_repo and the authenticate entry points. *)
(*                                                                         *)
(* Python values are modelled as records:                                  *)
(*   - a text (the content of a str or of a bytes object) is either the    *)
(*     JSON serialisation of a document or a text that is no JSON,         *)
(*   - a mapping (dict) is a function from a finite set of strings,        *)
(*   - an exception is its class, its details() and the text it prints.    *)
(* The ledger (immudb) is the environment: every RPC either succeeds or    *)
(* fails with an _InactiveRpcError whose details() the environment picks.  *)
(***************************************************************************)
EXTENDS Integers, Sequences, FiniteSets, TLC

(***************************************************************************)
(* Bounds of the model.                                                    *)
(***************************************************************************)
\* the largest max_retries the constructor is given (the least is MinRetries)
MaxRetries == 2
\* the number of writes (verifiedSet of any client) the ledger accepts from
\* the callers of notarize(key, value)
MaxWrites == 2
\* the number of writes the ledger accepts from the callers of the file and
\* git entry points
MaxArtifactWrites == 1

\* max_retries: int = 5
DefaultMaxRetries == 5
\* the least max_retries the constructor is given: a negative number
MinRetries == 0 - 1
\* the attempts and sleeps of one call are counted up to this number
CountCap == MaxRetries + 2

(***************************************************************************)
(* Exceptions.  details is the sequence of the words of exc.details();     *)
(* none says that details() is None.                                       *)
(***************************************************************************)
Exc(cls, none, details) == [cls |-> cls, none |-> none, details |-> details]

\* last_exc = Exception() of the retry wrapper
BlankException == Exc("Exception", TRUE, <<>>)
JSONDecodeError == Exc("JSONDecodeError", TRUE, <<>>)
ValueError == Exc("ValueError", TRUE, <<>>)
InvalidGitRepositoryError == Exc("InvalidGitRepositoryError", TRUE, <<>>)

InactiveRpcError(none, details) == Exc("_InactiveRpcError", none, details)

TimedOut == InactiveRpcError(FALSE,
              <<"failed", "to", "connect", "Connection", "timed", "out">>)
Refused == InactiveRpcError(FALSE, <<"Connection", "refused">>)
EmptyDetails == InactiveRpcError(FALSE, <<>>)
NoDetails == InactiveRpcError(TRUE, <<>>)
KeyNotFound == InactiveRpcError(FALSE, <<"key", "not", "found">>)

\* Python's `detail in exc_details` on strings: detail occurs in text
Contains(text, detail) ==
    \E i \in 0..(Len(text) - Len(detail)) :
        SubSeq(text, i + 1, i + Len(detail)) = detail

\* the details of the failure name a connection that timed out
TimesOut(exc) == Contains(exc.details, <<"Connection", "timed", "out">>)

\* the failures the network can produce on any RPC
RpcFailures == {TimedOut, Refused, EmptyDetails, NoDetails}

\* grpc: _InactiveRpcError is a subclass of RpcError
IsRpcError(exc) == exc.cls \in {"_InactiveRpcError", "RpcError"}
IsInactiveRpcError(exc) == exc.cls = "_InactiveRpcError"

\* @retry(possible_exc_details=['Connection timed out'])
possible_exc_details == {<<"Connection", "timed", "out">>}

\* a variant of RetryMatches: any failure that names a connection is retried
RetryMatchesAnyConnection(exc) ==
    /\ ~exc.none
    /\ exc.details # <<>>
    /\ Contains(exc.details, <<"Connection">>)

\* the condition of the retry wrapper:
\*   exc_details and any(detail in exc_details for detail in possible_exc_details)
RetryMatches(exc) ==
    /\ ~exc.none
    /\ exc.details # <<>>
    /\ \E detail \in possible_exc_details : Contains(exc.details, detail)

(***************************************************************************)
(* Texts, JSON and hashing.                                                *)
(***************************************************************************)
NoDoc == [none |-> TRUE]
\* a text that is no JSON document
RawText(s) == [json |-> FALSE, doc |-> NoDoc, raw |-> s]
\* json.dumps(d)
JsonDumps(d) == [json |-> TRUE, doc |-> d, raw |-> ""]
\* json.loads(text) succeeds
JsonLoadable(text) == text.json
\* json.loads(text), when it succeeds
JsonLoads(text) == text.doc

\* hashlib sha256 hexdigest of a text: distinct texts have distinct digests
Sha256(text) == [sha256 |-> text]
\* hash_content: a str is encoded, bytes are hashed as they are
hash_content(content) == Sha256(content)

\* Python values handed to encode(): ty is the Python type, text the content
\* of a str or bytes, doc the mapping of a dict
PyStr(text) == [ty |-> "str", text |-> text, doc |-> NoDoc]
PyBytes(text) == [ty |-> "bytes", text |-> text, doc |-> NoDoc]
PyDict(d) == [ty |-> "dict", text |-> RawText(""), doc |-> d]
PyInt == [ty |-> "int", text |-> RawText(""), doc |-> NoDoc]

\* encode() raises ValueError for anything that is no str, bytes or dict
Encodable(value) == value.ty \in {"str", "bytes", "dict"}
encode(value) ==
    IF value.ty = "str" THEN value.text
    ELSE IF value.ty = "bytes" THEN value.text
    ELSE JsonDumps(value.doc)

(***************************************************************************)
(* get_size_format: the string f'{value:.2f} {unit}B' is the pair of the   *)
(* number in hundredths and the unit.                                      *)
(***************************************************************************)
SizeUnits == <<"", "K", "M", "G", "T", "P", "E", "Z">>
SizeFactor == 1024

RECURSIVE Pow(_, _)
Pow(b, e) == IF e = 0 THEN 1 ELSE b * Pow(b, e - 1)

\* num/den rounded to the nearest integer, ties to even (the .2f format)
RoundHalfEven(num, den) ==
    LET q == num \div den
        r == num % den
    IN  IF 2 * r < den THEN q
        ELSE IF 2 * r > den THEN q + 1
        ELSE IF q % 2 = 0 THEN q ELSE q + 1

SizeString(hundredths, unit) == [hundredths |-> hundredths, unit |-> unit \o "B"]

\* the loop of get_size_format from unit number i on; value is bytes / 1024^(i-1)
RECURSIVE ScaleFrom(_, _)
ScaleFrom(bytes, i) ==
    IF i > Len(SizeUnits)
    THEN SizeString(RoundHalfEven(bytes * 100, Pow(SizeFactor, i - 1)), "Y")
    ELSE IF bytes < Pow(SizeFactor, i)
         THEN SizeString(RoundHalfEven(bytes * 100, Pow(SizeFactor, i - 1)),
                         SizeUnits[i])
         ELSE ScaleFrom(bytes, i + 1)

get_size_format(value) == ScaleFrom(value, 1)

(***************************************************************************)
(* The files and the git repositories of the caller.                       *)
(***************************************************************************)
FilePaths == {"/srv/pkg/a.rpm"}
\* Path(file).name
Basename(file) == "a.rpm"
\* what a file can hold
FileContents == {"A", "B"}
FileBytes(content) == RawText(content)
\* st_size of a file holding content
FileSizeOf(content) == IF content = "A" THEN 1253656 ELSE 1152

\* the commits a repository's HEAD can be at
CommitObject(c) ==
    IF c = "c1"
    THEN [hexsha |-> "1111111aaaa", short |-> "1111111", tree |-> "t1",
          parents |-> <<"0000000ffff">>, message |-> "first", gpgsig |-> "",
          author |-> [Email |-> "a@x.org", Name |-> "a",
                      When |-> "2023-01-01T10:00:00+0000"],
          committer |-> [Email |-> "b@x.org", Name |-> "b",
                         When |-> "2023-01-01T11:00:00+0000"]]
    ELSE [hexsha |-> "2222222bbbb", short |-> "2222222", tree |-> "t2",
          parents |-> <<"1111111aaaa">>, message |-> "second", gpgsig |-> "",
          author |-> [Email |-> "a@x.org", Name |-> "a",
                      When |-> "2023-02-01T10:00:00+0000"],
          committer |-> [Email |-> "a@x.org", Name |-> "a",
                         When |-> "2023-02-01T10:00:00+0000"]]

\* the directories the caller names: two clones of one commit of one remote
\* and a directory that is no repository
ValidRepos == {"/w/clone1", "/w/clone2"}
RepoPaths == ValidRepos \cup {"/w/plain"}
RepoHead(repo) == "c1"
\* urlparse(repo.remote().url): netloc and path
RepoUrl(repo) == [netloc |-> "git.example.org", slash |-> TRUE,
                  rest |-> "org/pkg.git"]
\* get_directory_size
DirectorySize(repo) == IF repo = "/w/clone1" THEN 1024 ELSE 5000

\* a variant of IsRepository: every directory is opened as a repository
IsRepositoryAnyDirectory(repo) == TRUE

\* Repo(repo_path) raises InvalidGitRepositoryError
IsRepository(repo) == repo \in ValidRepos

\* extract_git_metadata(repo_path)['Name']:
\*   f'git@{url.netloc}{re.sub(r"^/", ":", url.path)}@{commit.hexsha[:7]}'
GitName(repo) ==
    LET url == RepoUrl(repo)
        commit == CommitObject(RepoHead(repo))
    IN  "git@" \o url.netloc \o (IF url.slash THEN ":" ELSE "") \o url.rest
        \o "@" \o commit.short

\* extract_git_metadata(repo_path)['git']
GitBlock(repo) ==
    LET commit == CommitObject(RepoHead(repo))
    IN  [Author |-> commit.author,
         Commit |-> commit.hexsha,
         Committer |-> commit.committer,
         Message |-> commit.message,
         PGPSignature |-> commit.gpgsig,
         Parents |-> commit.parents,
         Tree |-> commit.tree]

extract_git_metadata(repo) == [Name |-> GitName(repo), git |-> GitBlock(repo)]

(***************************************************************************)
(* The configuration of the instance and the records it builds.            *)
(***************************************************************************)
username == "immudb"
database == "defaultdb"

\* {**a, **b}: the keys of both, b's value where both have the key
DictMerge(a, b) ==
    [k \in (DOMAIN a) \cup (DOMAIN b) |-> IF k \in DOMAIN b THEN b[k] ELSE a[k]]

EmptyDict == [k \in {} |-> ""]

\* the property default_metadata
default_metadata == [k \in {"sbom_api_ver"} |-> "0.2"]

\* an Optional[Dict] argument: None, or a mapping
PyNone == [none |-> TRUE, map |-> EmptyDict]
PyMap(m) == [none |-> FALSE, map |-> m]

\* `if not user_metadata: user_metadata = {}`
OrEmpty(user_metadata) ==
    IF user_metadata.none \/ user_metadata.map = EmptyDict
    THEN EmptyDict ELSE user_metadata.map

\* the layers of 'Metadata' in notarize_file, in the order written
FileMetadata(user_metadata) ==
    DictMerge(default_metadata, OrEmpty(user_metadata))

\* a variant of GitMetadata: the caller's layer is written first
GitMetadataUserFirst(git, user_metadata) ==
    DictMerge(DictMerge(OrEmpty(user_metadata), [k \in {"git"} |-> git]),
              default_metadata)

\* the layers of 'Metadata' in notarize_git_repo, in the order written
GitMetadata(git, user_metadata) ==
    DictMerge(DictMerge([k \in {"git"} |-> git], default_metadata),
              OrEmpty(user_metadata))

Payload(name, kind, size, hash, signer, metadata) ==
    [Name |-> name, Kind |-> kind, Size |-> size, Hash |-> hash,
     Signer |-> signer, Metadata |-> metadata]

hash_file(content) == Sha256(FileBytes(content))

\* a variant of FilePayload: the path is hashed, not the content
FilePayloadHashOfPath(file, content, user_metadata) ==
    Payload(Basename(file), "file", get_size_format(FileSizeOf(content)),
            Sha256(RawText(file)), username, FileMetadata(user_metadata))

\* the payload of notarize_file for a file holding content
FilePayload(file, content, user_metadata) ==
    Payload(Basename(file), "file", get_size_format(FileSizeOf(content)),
            hash_file(content), username, FileMetadata(user_metadata))

\* a variant of GitMetadataHash: the clone's path is hashed with the block
GitMetadataHashOfClone(repo) ==
    hash_content(JsonDumps([git |-> extract_git_metadata(repo).git,
                            path |-> repo]))

\* metadata_hash of notarize_git_repo and of authenticate_git_repo
GitMetadataHash(repo) ==
    hash_content(JsonDumps(extract_git_metadata(repo).git))

\* a variant of GitPayload: the caller's metadata is merged into the record
GitPayloadMergedTop(repo, user_metadata) ==
    LET git_metadata == extract_git_metadata(repo)
    IN  DictMerge(Payload(git_metadata.Name, "git",
                          get_size_format(DirectorySize(repo)),
                          GitMetadataHash(repo), username,
                          GitMetadata(git_metadata.git, user_metadata)),
                  OrEmpty(user_metadata))

\* the payload of notarize_git_repo
GitPayload(repo, user_metadata) ==
    LET git_metadata == extract_git_metadata(repo)
    IN  Payload(git_metadata.Name, "git",
                get_size_format(DirectorySize(repo)),
                GitMetadataHash(repo), username,
                GitMetadata(git_metadata.git, user_metadata))

(***************************************************************************)
(* The state.                                                              *)
(***************************************************************************)
VARIABLES
    max_retries,  \* self.max_retries
    session,      \* the session of the client: "none", "auth" (logged in, no
                  \* database selected) or "db" (the database is selected)
    ledger,       \* the ledger: for every key the sequence of its revisions
    files,        \* the content of the caller's files
    capacity,     \* the number of writes the ledger accepts
    pc,           \* where the running call is
    call,         \* the running (or last) call: entry point and arguments
    retries,      \* the local max_retries of the retry wrapper
    last_exc,     \* the local last_exc of the retry wrapper
    set_result,   \* what verified_set returned in this attempt
    get_result,   \* what verified_get returned or raised in this attempt
    result,       \* what the call returned or raised
    attempts,     \* history: calls of the wrapped function by this call
    sleeps,       \* history: sleeps of the retry wrapper in this call
    trail,        \* history: the RPC steps issued in this attempt
    nsets,        \* history: verifiedSet RPCs issued by this call
    att_fail,     \* history: the step of this attempt whose RPC failed
    all_timed_out,\* history: every RPC of this call so far failed with the
                  \* signature 'Connection timed out' in its details
    write_tx,     \* history: the transaction of this call's write (0: none)
    clean,        \* history: the running or last call is a notarize_file
                  \* and since it began no other client wrote to the ledger
                  \* and no file was rewritten
    prev          \* history: the file of the call before this one, if that
                  \* was a notarize_file that returned a record and nothing
                  \* but this instance changed ledger or files since ("":
                  \* none)

vars == <<max_retries, session, ledger, files, capacity, pc, call, retries, last_exc,
          set_result, get_result, result, attempts, sleeps, trail, nsets,
          att_fail, all_timed_out, write_tx, clean, prev>>

\* results
NoResult == [kind |-> "none"]
\* to_dict(response): key decoded, value JSON-decoded
Record(key, value, revision, tx) ==
    [kind |-> "record", key |-> key, value |-> value, revision |-> revision,
     id |-> tx]
\* {'error': format_exc()}: the text names the exception
ErrorRecord(exc) == [kind |-> "error", error |-> exc]
\* asdict(SetResponse)
SetProof(tx) == [kind |-> "proof", id |-> tx, verified |-> TRUE]
Raised(exc) == [kind |-> "raise", exc |-> exc]

\* 'error' in result
HasError(r) == r.kind = "error"

NoFailure == [step |-> "none", exc |-> BlankException]
Failure(step, exc) == [step |-> step, exc |-> exc]

NoValue == [ty |-> "none", text |-> RawText(""), doc |-> NoDoc]
Call(op, key, value, path, user_metadata) ==
    [op |-> op, key |-> key, value |-> value, path |-> path,
     user_metadata |-> user_metadata]
NoCall == Call("none", RawText(""), NoValue, "", PyNone)
NoPrev == ""

NotarizeOps == {"notarize", "notarize_file", "notarize_git_repo"}
AuthenticateOps == {"authenticate", "authenticate_file",
                    "authenticate_git_repo"}

(***************************************************************************)
(* The ledger.                                                             *)
(***************************************************************************)
\* the key of notarize(key, value) and authenticate(key)
ExplicitKey == RawText("k1")
\* the keys of the files and repositories
ArtifactKeys ==
    {hash_file(c) : c \in FileContents}
        \cup {GitMetadataHash(r) : r \in ValidRepos}
\* the keys the clients use
LedgerKeys == DOMAIN ledger

RECURSIVE SumLen(_, _)
SumLen(f, keys) ==
    IF keys = {} THEN 0
    ELSE LET k == CHOOSE x \in keys : TRUE
         IN  Len(f[k]) + SumLen(f, keys \ {k})

\* the number of transactions of the ledger
Writes == SumLen(ledger, LedgerKeys)

\* the ledger after verifiedSet(key, value) of a client
Appended(key, value, by) ==
    [ledger EXCEPT ![key] = Append(@, [tx |-> Writes + 1, value |-> value,
                                       by |-> by])]

KeyPresent(key) == ledger[key] # <<>>
Latest(key) == ledger[key][Len(ledger[key])]

(***************************************************************************)
(* Init: the state after the constructor, whose login succeeded.           *)
(***************************************************************************)
Constructed ==
    /\ session = "db"
    /\ files \in [FilePaths -> FileContents]
    /\ pc = "idle"
    /\ call = NoCall
    /\ retries = 0
    /\ last_exc = BlankException
    /\ set_result = NoResult
    /\ get_result = NoResult
    /\ result = NoResult
    /\ attempts = 0
    /\ sleeps = 0
    /\ trail = <<>>
    /\ nsets = 0
    /\ att_fail = NoFailure
    /\ all_timed_out = TRUE
    /\ write_tx = 0
    /\ clean = FALSE
    /\ prev = NoPrev

\* callers of notarize(key, value) and authenticate(key), for every
\* max_retries of the range
Init ==
    /\ max_retries \in MinRetries..MaxRetries
    /\ ledger = [k \in {ExplicitKey} |-> <<>>]
    /\ capacity = MaxWrites
    /\ Constructed

\* callers of the file and git entry points, max_retries being the default
InitArtifacts ==
    /\ max_retries = DefaultMaxRetries
    /\ ledger = [k \in ArtifactKeys |-> <<>>]
    /\ capacity = MaxArtifactWrites
    /\ Constructed

(***************************************************************************)
(* The arguments the callers pass.                                         *)
(***************************************************************************)
\* a mapping a caller notarizes under a key of its own
ManualRecord ==
    Payload("manual", "file", get_size_format(0), ExplicitKey, "someone",
            EmptyDict)

\* values of notarize(key, value): a dict, a str that is no JSON, an int
NotarizeValues == {PyDict(ManualRecord), PyStr(RawText("hello")), PyInt}

\* caller metadata whose keys collide with the default metadata and with the
\* top-level fields of the record
MdCollide ==
    [sbom_api_ver |-> "9.9", build |-> "42", Name |-> "evil", Kind |-> "evil",
     Size |-> SizeString(0, "evil"), Hash |-> Sha256(RawText("evil")),
     Signer |-> "evil"]
\* caller metadata with a key named git
MdGit == [git |-> [Commit |-> "evil"]]

UserMetadatas == {PyNone, PyMap(MdCollide), PyMap(MdGit)}

\* what another client of the ledger writes
OtherValues == {JsonDumps(ManualRecord)}

(***************************************************************************)
(* The retry wrapper (retry.wrapped).                                      *)
(***************************************************************************)
Min(a, b) == IF a < b THEN a ELSE b

\* max_retries -= 1.  A negative counter never reaches 0 again, whatever its
\* value: it is kept at MinRetries.
Decrement(n) == IF n > MinRetries THEN n - 1 ELSE n

\* a variant of LoopCondition: the last attempt is not made
LoopConditionOffByOne(n) == n > 1

\* `while max_retries:`
LoopCondition(n) == n # 0

\* a variant of ExhaustedRaises: the failure that was seen is dropped
ExhaustedRaisesBlank == BlankException

\* `raise last_exc` after the loop
ExhaustedRaises == last_exc

\* `except _InactiveRpcError as exc:`
WrapperCatches(exc) == IsInactiveRpcError(exc)

\* func raised exc: the except clause of the wrapper, or the exception
\* passes through it
WrapperExcept(exc) ==
    IF WrapperCatches(exc)
    THEN /\ last_exc' = exc
         /\ IF RetryMatches(exc)
            THEN /\ retries' = Decrement(retries)
                 /\ pc' = "sleep"
                 /\ result' = result
            ELSE /\ retries' = retries
                 /\ pc' = "done"
                 /\ result' = Raised(exc)
    ELSE /\ last_exc' = last_exc
         /\ retries' = retries
         /\ pc' = "done"
         /\ result' = Raised(exc)

\* func returned r
WrapperReturn(r) ==
    /\ pc' = "done"
    /\ result' = r
    /\ UNCHANGED <<retries, last_exc>>

Idle == pc \in {"idle", "done"}

\* a call enters the wrapper: max_retries = self.max_retries,
\* last_exc = Exception()
Enter(op, key, value, path, user_metadata) ==
    /\ Idle
    /\ op \in NotarizeOps => Writes < capacity
    /\ call' = Call(op, key, value, path, user_metadata)
    /\ retries' = max_retries
    /\ last_exc' = BlankException
    /\ pc' = "loop"
    /\ set_result' = NoResult
    /\ get_result' = NoResult
    /\ result' = NoResult
    /\ attempts' = 0
    /\ sleeps' = 0
    /\ trail' = <<>>
    /\ nsets' = 0
    /\ att_fail' = NoFailure
    /\ all_timed_out' = TRUE
    /\ write_tx' = 0
    /\ clean' = (op = "notarize_file")
    /\ prev' = IF call.op = "notarize_file" /\ result.kind = "record" /\ clean
               THEN call.path ELSE NoPrev
    /\ UNCHANGED <<capacity, max_retries, session, ledger, files>>

\* a call raises exc before it reaches notarize or authenticate
Reject(op, path, user_metadata, exc) ==
    /\ Idle
    /\ call' = Call(op, RawText(""), NoValue, path, user_metadata)
    /\ pc' = "done"
    /\ result' = Raised(exc)
    /\ set_result' = NoResult
    /\ get_result' = NoResult
    /\ attempts' = 0
    /\ sleeps' = 0
    /\ trail' = <<>>
    /\ nsets' = 0
    /\ att_fail' = NoFailure
    /\ all_timed_out' = TRUE
    /\ write_tx' = 0
    /\ clean' = FALSE
    /\ prev' = NoPrev
    /\ UNCHANGED <<capacity, max_retries, session, ledger, files, retries, last_exc>>

\* notarize(key, value)
CallNotarize ==
    \E value \in NotarizeValues :
        Enter("notarize", ExplicitKey, value, "", PyNone)

\* authenticate(key)
CallAuthenticate ==
    \E key \in LedgerKeys :
        Enter("authenticate", key, NoValue, "", PyNone)

\* notarize_file(file, user_metadata)
CallNotarizeFile ==
    \E file \in FilePaths, user_metadata \in UserMetadatas :
        Enter("notarize_file", hash_file(files[file]),
              PyDict(FilePayload(file, files[file], user_metadata)),
              file, user_metadata)

\* authenticate_file(file)
CallAuthenticateFile ==
    \E file \in FilePaths :
        Enter("authenticate_file", hash_file(files[file]), NoValue, file,
              PyNone)

\* notarize_git_repo(repo_path, user_metadata)
CallNotarizeGitRepo ==
    \E repo \in RepoPaths, user_metadata \in UserMetadatas :
        IF IsRepository(repo)
        THEN Enter("notarize_git_repo", GitMetadataHash(repo),
                   PyDict(GitPayload(repo, user_metadata)), repo,
                   user_metadata)
        ELSE Reject("notarize_git_repo", repo, user_metadata,
                    InvalidGitRepositoryError)

\* authenticate_git_repo(repo_path)
CallAuthenticateGitRepo ==
    \E repo \in RepoPaths :
        IF IsRepository(repo)
        THEN Enter("authenticate_git_repo", GitMetadataHash(repo), NoValue,
                   repo, PyNone)
        ELSE Reject("authenticate_git_repo", repo, PyNone,
                    InvalidGitRepositoryError)

\* `while max_retries:` holds: the wrapper calls the wrapped function
Attempt ==
    /\ pc = "loop"
    /\ LoopCondition(retries)
    /\ pc' = "login"
    /\ attempts' = Min(attempts + 1, CountCap)
    /\ trail' = <<>>
    /\ att_fail' = NoFailure
    /\ set_result' = NoResult
    /\ get_result' = NoResult
    /\ UNCHANGED <<capacity, max_retries, session, ledger, files, call, retries,
                   last_exc, result, sleeps, nsets, all_timed_out, write_tx, clean,
                   prev>>

\* `while max_retries:` fails: raise last_exc
Exhausted ==
    /\ pc = "loop"
    /\ ~LoopCondition(retries)
    /\ pc' = "done"
    /\ result' = Raised(ExhaustedRaises)
    /\ UNCHANGED <<capacity, max_retries, session, ledger, files, call, retries,
                   last_exc, set_result, get_result, attempts, sleeps, trail,
                   nsets, att_fail, all_timed_out, write_tx, clean, prev>>

\* sleep(self.retry_timeout); continue
Sleep ==
    /\ pc = "sleep"
    /\ sleeps' = Min(sleeps + 1, CountCap)
    /\ pc' = "loop"
    /\ UNCHANGED <<capacity, max_retries, session, ledger, files, call, retries,
                   last_exc, set_result, get_result, result, attempts, trail,
                   nsets, att_fail, all_timed_out, write_tx, clean, prev>>

(***************************************************************************)
(* The ledger session: login, verified_set, verified_get.                  *)
(***************************************************************************)
\* a variant of AfterLogin: authenticate writes too
AfterLoginAlwaysSet == "set"

\* the step after login(): notarize writes, authenticate reads
AfterLogin == IF call.op \in NotarizeOps THEN "set" ELSE "get"

\* login(): super().login(...) and useDatabase(...) both succeed
LoginOk ==
    /\ pc = "login"
    /\ session' = "db"
    /\ trail' = Append(trail, "login")
    /\ all_timed_out' = FALSE
    /\ pc' = AfterLogin
    /\ UNCHANGED <<capacity, max_retries, ledger, files, call, retries, last_exc,
                   set_result, get_result, result, attempts, sleeps, nsets,
                   att_fail, write_tx, clean, prev>>

\* a variant of LoginFail: the failure of login() is swallowed and the
\* attempt goes on
LoginFailIgnored ==
    /\ pc = "login"
    /\ \E exc \in RpcFailures, at \in {"login", "useDatabase"} :
        /\ session' = IF at = "login" THEN session ELSE "auth"
        /\ all_timed_out' = (all_timed_out /\ at = "login" /\ TimesOut(exc))
        /\ att_fail' = Failure("login", exc)
    /\ pc' = AfterLogin
    /\ trail' = Append(trail, "login")
    /\ UNCHANGED <<capacity, max_retries, ledger, files, call, set_result,
                   get_result, attempts, sleeps, nsets, write_tx, clean, prev,
                   retries, last_exc, result>>

\* login(): the RPC of super().login(...) or of useDatabase(...) fails; the
\* exception leaves notarize / authenticate
LoginFail ==
    /\ pc = "login"
    /\ \E exc \in RpcFailures, at \in {"login", "useDatabase"} :
        /\ session' = IF at = "login" THEN session ELSE "auth"
        /\ all_timed_out' = (all_timed_out /\ at = "login" /\ TimesOut(exc))
        /\ att_fail' = Failure("login", exc)
        /\ WrapperExcept(exc)
    /\ trail' = Append(trail, "login")
    /\ UNCHANGED <<capacity, max_retries, ledger, files, call, set_result, get_result,
                   attempts, sleeps, nsets, write_tx, clean, prev>>

\* a variant of VerifiedSetCatches: transient failures are left to the wrapper
VerifiedSetCatchesPermanent(exc) == IsRpcError(exc) /\ ~RetryMatches(exc)

\* `except RpcError:` of verified_set
VerifiedSetCatches(exc) == IsRpcError(exc)
\* a variant of VerifiedGetCatches: transient failures are left to the wrapper
VerifiedGetCatchesPermanent(exc) == IsRpcError(exc) /\ ~RetryMatches(exc)
\* a variant of VerifiedGetCatches: no except clause
VerifiedGetCatchesNothing(exc) == FALSE

\* `except RpcError:` of verified_get
VerifiedGetCatches(exc) == IsRpcError(exc)

\* a variant of NotarizeReturnsEarly: the result of verified_set is ignored
NotarizeNeverReturnsEarly(r) == FALSE

\* notarize: `if 'error' in result: return result`
NotarizeReturnsEarly(r) == HasError(r)

\* verified_set: encode(value) raises ValueError before any RPC
SetEncodeError ==
    /\ pc = "set"
    /\ ~Encodable(call.value)
    /\ WrapperExcept(ValueError)
    /\ UNCHANGED <<capacity, max_retries, session, ledger, files, call, set_result,
                   get_result, attempts, sleeps, trail, nsets, att_fail,
                   all_timed_out, write_tx, clean, prev>>

\* verified_set: verifiedSet succeeds; notarize goes on to verified_get
SetOk ==
    /\ pc = "set"
    /\ Encodable(call.value)
    /\ ledger' = Appended(call.key, encode(call.value), "self")
    /\ set_result' = SetProof(Writes + 1)
    /\ write_tx' = Writes + 1
    /\ nsets' = nsets + 1
    /\ trail' = Append(trail, "set")
    /\ all_timed_out' = FALSE
    /\ IF NotarizeReturnsEarly(set_result')
       THEN WrapperReturn(set_result')
       ELSE pc' = "get" /\ UNCHANGED <<retries, last_exc, result>>
    /\ UNCHANGED <<capacity, max_retries, session, files, call, get_result, attempts,
                   sleeps, att_fail, clean, prev>>

\* verified_set: verifiedSet fails
SetFail ==
    /\ pc = "set"
    /\ Encodable(call.value)
    /\ \E exc \in RpcFailures :
        /\ att_fail' = Failure("set", exc)
        /\ all_timed_out' = (all_timed_out /\ TimesOut(exc))
        /\ IF VerifiedSetCatches(exc)
           THEN /\ set_result' = ErrorRecord(exc)
                /\ IF NotarizeReturnsEarly(set_result')
                   THEN WrapperReturn(set_result')
                   ELSE pc' = "get" /\ UNCHANGED <<retries, last_exc, result>>
           ELSE /\ set_result' = NoResult
                /\ WrapperExcept(exc)
    /\ nsets' = nsets + 1
    /\ trail' = Append(trail, "set")
    /\ UNCHANGED <<capacity, max_retries, session, ledger, files, call, get_result,
                   attempts, sleeps, write_tx, clean, prev>>

\* verified_get: verifiedGet succeeds, and to_dict decodes the response or
\* json.loads raises
GetOk ==
    /\ pc = "get"
    /\ KeyPresent(call.key)
    /\ LET entry == Latest(call.key)
       IN  IF JsonLoadable(entry.value)
           THEN /\ get_result' = Record(call.key, JsonLoads(entry.value),
                                        Len(ledger[call.key]), entry.tx)
                /\ WrapperReturn(get_result')
           ELSE /\ get_result' = Raised(JSONDecodeError)
                /\ WrapperExcept(JSONDecodeError)
    /\ trail' = Append(trail, "get")
    /\ all_timed_out' = FALSE
    /\ UNCHANGED <<capacity, max_retries, session, ledger, files, call, set_result,
                   attempts, sleeps, nsets, att_fail, write_tx, clean, prev>>

\* the failures of verifiedGet: those of the network, and "key not found"
\* for a key the ledger does not hold
GetFailures(key) ==
    IF KeyPresent(key) THEN RpcFailures ELSE RpcFailures \cup {KeyNotFound}

\* verified_get: verifiedGet fails
GetFail ==
    /\ pc = "get"
    /\ \E exc \in GetFailures(call.key) :
        /\ att_fail' = Failure("get", exc)
        /\ all_timed_out' = (all_timed_out /\ TimesOut(exc))
        /\ IF VerifiedGetCatches(exc)
           THEN /\ get_result' = ErrorRecord(exc)
                /\ WrapperReturn(get_result')
           ELSE /\ get_result' = Raised(exc)
                /\ WrapperExcept(exc)
    /\ trail' = Append(trail, "get")
    /\ UNCHANGED <<capacity, max_retries, session, ledger, files, call, set_result,
                   attempts, sleeps, nsets, write_tx, clean, prev>>

(***************************************************************************)
(* The environment: other clients of the ledger, and the caller's files.   *)
(***************************************************************************)
\* a notarize call is running and has not issued its write yet
WritePending == ~Idle /\ call.op \in NotarizeOps /\ nsets = 0

\* another client writes to the ledger
OtherWrite ==
    /\ Writes + (IF WritePending THEN 1 ELSE 0) < capacity
    /\ \E key \in LedgerKeys, value \in OtherValues :
        ledger' = Appended(key, value, "other")
    /\ clean' = FALSE
    /\ prev' = NoPrev
    /\ UNCHANGED <<capacity, max_retries, session, files, pc, call, retries, last_exc,
                   set_result, get_result, result, attempts, sleeps, trail,
                   nsets, att_fail, all_timed_out, write_tx>>

\* a file is rewritten between two calls
ModifyFile ==
    /\ Idle
    /\ \E file \in FilePaths, content \in FileContents :
        /\ files[file] # content
        /\ files' = [files EXCEPT ![file] = content]
    /\ clean' = FALSE
    /\ prev' = NoPrev
    /\ UNCHANGED <<capacity, max_retries, session, ledger, pc, call, retries, last_exc,
                   set_result, get_result, result, attempts, sleeps, trail,
                   nsets, att_fail, all_timed_out, write_tx>>

\* the steps of a call of notarize or authenticate whose value is a mapping
Steps ==
    \/ Attempt
    \/ Exhausted
    \/ Sleep
    \/ LoginOk
    \/ LoginFail
    \/ SetOk
    \/ SetFail
    \/ GetOk
    \/ GetFail

Next ==
    \/ CallNotarize
    \/ CallAuthenticate
    \/ SetEncodeError
    \/ OtherWrite
    \/ Steps

Spec == Init /\ [][Next]_vars

\* a call that has begun goes on: every RPC returns, every sleep ends, and
\* the interpreter runs the wrapper
Fairness == WF_vars(Steps \/ SetEncodeError)

SpecLive == Init /\ [][Next]_vars /\ Fairness

NextArtifacts ==
    \/ CallAuthenticate
    \/ CallNotarizeFile
    \/ CallAuthenticateFile
    \/ CallNotarizeGitRepo
    \/ CallAuthenticateGitRepo
    \/ ModifyFile
    \/ OtherWrite
    \/ Steps

SpecArtifacts == InitArtifacts /\ [][NextArtifacts]_vars

(***************************************************************************)
(* Properties.                                                             *)
(***************************************************************************)
\* the entry of key written by transaction tx
EntryAt(key, tx) ==
    CHOOSE e \in {ledger[key][i] : i \in 1..Len(ledger[key])} : e.tx = tx

\* the record this call wrote
Written == JsonLoads(EntryAt(call.key, write_tx).value)

\* this call has written its record and has not read it back yet
JustWritten == pc = "get" /\ write_tx # 0

\* s is the beginning of t
IsPrefix(s, t) == Len(s) <= Len(t) /\ s = SubSeq(t, 1, Len(s))

\* C1: a call of notarize or authenticate whose every RPC failed with the
\* signature 'Connection timed out' has, when it ends, called the wrapped
\* function exactly max_retries times and, having made an attempt, raises
\* the failure of the last attempt, which failed in login.
C1_RetryBound ==
    (pc = "done" /\ all_timed_out) =>
        /\ attempts = max_retries
        /\ max_retries >= 1 =>
              /\ att_fail.step = "login"
              /\ result = Raised(att_fail.exc)

C1_Witness ==
    /\ pc = "done"
    /\ call.op = "notarize"
    /\ all_timed_out
    /\ max_retries = MaxRetries
    /\ attempts = MaxRetries
    /\ result = Raised(TimedOut)

\* C2: an attempt that raises an RPC failure whose details hold no recognized
\* signature (also empty or missing details) ends the call at once: the
\* failure is raised, no further attempt follows and no sleep happens after
\* it, on the first attempt and after earlier retries alike.
C2_NonMatchingPropagates ==
    (att_fail.step = "login" /\ ~TimesOut(att_fail.exc)) =>
        /\ pc = "done"
        /\ result = Raised(att_fail.exc)
        /\ attempts < CountCap => sleeps = attempts - 1

C2_Witness ==
    /\ pc = "done"
    /\ att_fail = Failure("login", EmptyDetails)
    /\ attempts = 2
    /\ sleeps = 1
    /\ result = Raised(EmptyDetails)

\* C3: when the verifiedSet or verifiedGet RPC fails, with or without a
\* recognized signature, verified_set / verified_get return a mapping with
\* the key 'error' that carries the failure, and nothing is raised.
C3_VerifiedCallsCapture ==
    /\ att_fail.step = "set" =>
          set_result = ErrorRecord(att_fail.exc) /\ result.kind # "raise"
    /\ att_fail.step = "get" =>
          get_result = ErrorRecord(att_fail.exc) /\ result.kind # "raise"

C3_Witness ==
    /\ att_fail = Failure("set", TimedOut)
    /\ set_result = ErrorRecord(TimedOut)
    /\ result = ErrorRecord(TimedOut)

\* C4: a call of notarize or authenticate with an encodable value
\* (max_retries >= 1) returns a mapping, or raises an RPC failure: a
\* transient one only after max_retries attempts, or one without a
\* recognized signature.  Nothing else is raised.
C4_OnlyRpcFaultsEscape ==
    (/\ pc = "done"
     /\ max_retries >= 1
     /\ call.op = "notarize" => Encodable(call.value)) =>
        \/ result.kind \in {"record", "error"}
        \/ /\ result.kind = "raise"
           /\ IsRpcError(result.exc)
           /\ TimesOut(result.exc) => attempts = max_retries

\* C5: in an attempt of notarize the RPC steps are login, verifiedSet,
\* verifiedGet in this order; when verified_set returns an error record the
\* call returns that record and issues no verifiedGet; otherwise the call
\* ends with what verified_get returned (or raised).
C5_NotarizeOrder ==
    call.op \in NotarizeOps =>
        /\ IsPrefix(trail, <<"login", "set", "get">>)
        /\ HasError(set_result) =>
              /\ pc = "done"
              /\ result = set_result
              /\ trail = <<"login", "set">>
        /\ pc = "get" => set_result.kind = "proof"
        /\ (pc = "done" /\ set_result.kind = "proof") =>
              /\ trail = <<"login", "set", "get">>
              /\ result = get_result

C5_Witness ==
    /\ pc = "done"
    /\ call.op = "notarize"
    /\ set_result = ErrorRecord(Refused)
    /\ result = set_result
    /\ trail = <<"login", "set">>

\* C7: authenticate(key) for a key the ledger does not hold returns an error
\* record and raises nothing, when the login of the attempt succeeded.
C7_AbsentKeyIsErrorRecord ==
    (/\ pc = "done"
     /\ call.op \in AuthenticateOps
     /\ ~KeyPresent(call.key)
     /\ attempts >= 1
     /\ att_fail.step # "login") =>
        result.kind = "error"

C7_Witness ==
    /\ pc = "done"
    /\ call.op = "authenticate"
    /\ ~KeyPresent(call.key)
    /\ trail = <<"login", "get">>
    /\ result = ErrorRecord(KeyNotFound)

\* C8 as stated: a call whose last attempt met an RPC failure with a
\* recognized signature, in login, verifiedSet or verifiedGet, ended only
\* after max_retries attempts and raises that failure.
C8_AnyStepRetried ==
    (pc = "done" /\ att_fail.step # "none" /\ TimesOut(att_fail.exc)) =>
        /\ attempts = max_retries
        /\ result = Raised(att_fail.exc)

\* C8 amended: an RPC failure with a recognized signature is retried, and
\* raised as the last failure after max_retries attempts, when it occurs in
\* login; in verifiedSet or verifiedGet it is returned as an error record by
\* the attempt it occurs in, without a retry.
C8_LoginRetriedOnly ==
    /\ (att_fail.step = "login" /\ TimesOut(att_fail.exc)) =>
          \/ pc \in {"sleep", "loop"}
          \/ /\ pc = "done"
             /\ attempts = max_retries
             /\ result = Raised(att_fail.exc)
    /\ (att_fail.step \in {"set", "get"} /\ TimesOut(att_fail.exc)) =>
          /\ pc = "done"
          /\ result = ErrorRecord(att_fail.exc)

C8_Witness ==
    /\ pc = "done"
    /\ call.op = "authenticate"
    /\ att_fail = Failure("login", TimedOut)
    /\ attempts = 2
    /\ max_retries = 2
    /\ result = Raised(TimedOut)

\* C6: authenticate_file(f), called after notarize_file(f) returned a record
\* with the file unmodified and no other write to the ledger since that call
\* began, and not failing in an RPC, returns a record whose key is
\* hash_file(f) and whose value has Hash = hash_file(f) and
\* Size = get_size_format(get_file_size(f)).
C6_FileRoundTrip ==
    (/\ pc = "done"
     /\ call.op = "authenticate_file"
     /\ prev = call.path
     /\ att_fail = NoFailure) =>
        /\ result.kind = "record"
        /\ result.key = hash_file(files[call.path])
        /\ result.value.Hash = hash_file(files[call.path])
        /\ result.value.Size = get_size_format(FileSizeOf(files[call.path]))

C6_Witness ==
    /\ pc = "done"
    /\ call.op = "authenticate_file"
    /\ prev = call.path
    /\ att_fail = NoFailure
    /\ files[call.path] = "A"
    /\ result.kind = "record"
    /\ result.value.Size = SizeString(120, "M")

\* C9: the record written by notarize_file and notarize_git_repo has exactly
\* the fields Name, Kind, Size, Hash, Signer and Metadata; the first five are
\* the computed values (basename or git name, 'file' or 'git', scaled size,
\* the key, username) whatever the caller's metadata holds, and every key of
\* the caller's metadata is found under Metadata.
C9_ProtocolFieldsNotOverridden ==
    (JustWritten /\ call.op \in {"notarize_file", "notarize_git_repo"}) =>
        LET user == OrEmpty(call.user_metadata)
        IN  /\ DOMAIN Written =
                  {"Name", "Kind", "Size", "Hash", "Signer", "Metadata"}
            /\ Written.Signer = username
            /\ Written.Hash = call.key
            /\ call.op = "notarize_file" =>
                  /\ Written.Name = Basename(call.path)
                  /\ Written.Kind = "file"
                  /\ Written.Size =
                        get_size_format(FileSizeOf(files[call.path]))
                  /\ Written.Hash = hash_file(files[call.path])
            /\ call.op = "notarize_git_repo" =>
                  /\ Written.Name = GitName(call.path)
                  /\ Written.Kind = "git"
                  /\ Written.Size = get_size_format(DirectorySize(call.path))
                  /\ Written.Hash = hash_content(JsonDumps(GitBlock(call.path)))
            /\ \A k \in DOMAIN user :
                  /\ k \in DOMAIN Written.Metadata
                  /\ Written.Metadata[k] = user[k]

C9_Witness ==
    /\ JustWritten
    /\ call.op = "notarize_file"
    /\ call.user_metadata = PyMap(MdCollide)
    /\ Written.Name = "a.rpm"
    /\ Written.Metadata["Name"] = "evil"

\* C10: the Metadata of a written record is the merge of the default
\* metadata, then the git block (notarize_git_repo only), then the caller's
\* metadata, the later layer winning: a caller's sbom_api_ver replaces the
\* default one, the default one is kept otherwise, and no default entry
\* replaces the git block.
C10_MetadataPrecedence ==
    (JustWritten /\ call.op \in {"notarize_file", "notarize_git_repo"}) =>
        LET user == OrEmpty(call.user_metadata)
            git  == IF call.op = "notarize_git_repo"
                    THEN [k \in {"git"} |-> GitBlock(call.path)]
                    ELSE EmptyDict
        IN  /\ Written.Metadata =
                  DictMerge(DictMerge(default_metadata, git), user)
            /\ Written.Metadata["sbom_api_ver"] =
                  IF "sbom_api_ver" \in DOMAIN user
                  THEN user["sbom_api_ver"] ELSE "0.2"
            /\ (call.op = "notarize_git_repo" /\ "git" \notin DOMAIN user) =>
                  Written.Metadata["git"] = GitBlock(call.path)

C10_Witness ==
    /\ JustWritten
    /\ call.op = "notarize_git_repo"
    /\ call.user_metadata = PyMap(MdCollide)
    /\ Written.Metadata["sbom_api_ver"] = "9.9"
    /\ Written.Metadata["git"] = GitBlock(call.path)

\* C11: the key of notarize_git_repo and authenticate_git_repo is the hash of
\* the JSON of the git block of HEAD and of nothing else: clones of one commit
\* have one key whatever their path, size or the caller's metadata, and
\* authenticate_git_repo reads the key under which notarize_git_repo wrote
\* the record of any clone of the same commit.
C11_GitKeyFromBlockOnly ==
    /\ \A r1, r2 \in ValidRepos :
          GitBlock(r1) = GitBlock(r2) =>
              GitMetadataHash(r1) = GitMetadataHash(r2)
    /\ (/\ call.op \in {"notarize_git_repo", "authenticate_git_repo"}
        /\ IsRepository(call.path)) =>
          call.key = hash_content(JsonDumps(GitBlock(call.path)))
    /\ (call.op = "authenticate_git_repo" /\ pc = "get") =>
          \A k \in LedgerKeys : \A i \in 1..Len(ledger[k]) :
              \A r \in ValidRepos :
                  LET e == ledger[k][i]
                      doc == JsonLoads(e.value)
                  IN  (/\ e.by = "self"
                       /\ doc.Kind = "git"
                       /\ doc.Size = get_size_format(DirectorySize(r))
                       /\ GitBlock(r) = GitBlock(call.path)) =>
                          k = call.key

C11_Witness ==
    /\ call.op = "authenticate_git_repo"
    /\ call.path = "/w/clone2"
    /\ pc = "get"
    /\ KeyPresent(call.key)
    /\ Latest(call.key).by = "self"
    /\ JsonLoads(Latest(call.key).value).Size =
          get_size_format(DirectorySize("/w/clone1"))
    /\ DirectorySize("/w/clone1") # DirectorySize("/w/clone2")

\* C12: notarize_git_repo and authenticate_git_repo called with a path that
\* is no repository end at once with InvalidGitRepositoryError raised (no
\* error record): the retry wrapper is not entered, so there is no attempt,
\* no sleep, and no login, verifiedSet or verifiedGet RPC of this call.
C12_InvalidRepoRaisesFirst ==
    (/\ call.op \in {"notarize_git_repo", "authenticate_git_repo"}
     /\ call.path \notin ValidRepos) =>
        /\ pc = "done"
        /\ result = Raised(InvalidGitRepositoryError)
        /\ attempts = 0
        /\ sleeps = 0
        /\ trail = <<>>
        /\ nsets = 0
        /\ write_tx = 0
        /\ set_result = NoResult
        /\ get_result = NoResult

C12_Witness ==
    /\ pc = "done"
    /\ call.op = "authenticate_git_repo"
    /\ call.path = "/w/plain"
    /\ result = Raised(InvalidGitRepositoryError)
    /\ attempts = 0
    /\ Writes = MaxArtifactWrites

\* C13: when a call of notarize or authenticate has ended, the wrapped
\* function has been called at least once, for every max_retries, and what
\* the call raises (the faults of encode and json.loads apart) is the RPC
\* failure that its last attempt met.
C13_AttemptsAtLeastOnce ==
    pc = "done" =>
        /\ attempts >= 1
        /\ (/\ result.kind = "raise"
            /\ result.exc \notin {JSONDecodeError, ValueError}) =>
              /\ IsRpcError(result.exc)
              /\ att_fail.step # "none"
              /\ result.exc = att_fail.exc

\* C14: every call of notarize or authenticate that has begun ends, for
\* every max_retries (positive, zero or negative), when every RPC returns
\* and every sleep ends.
C14_EveryCallEnds == (pc = "loop") ~> (pc = "done")

\* C15: a call that has ended after n >= 1 attempts has slept n - 1 times:
\* no sleep follows its last attempt.
C15_SleepsBetweenAttempts ==
    (pc = "done" /\ attempts >= 1 /\ attempts < CountCap) =>
        sleeps = attempts - 1

\* C16: in every attempt of notarize and authenticate, the first one and
\* every retry, a verifiedSet or verifiedGet is issued only after the login
\* of that attempt succeeded, and it runs in a session whose database is
\* selected.
C16_LoginBeforeLedgerCalls ==
    /\ pc \in {"set", "get"} =>
          /\ trail # <<>>
          /\ trail[1] = "login"
          /\ att_fail.step # "login"
          /\ session = "db"
    /\ \A i \in 1..Len(trail) :
          trail[i] \in {"set", "get"} =>
              /\ i > 1
              /\ trail[1] = "login"
              /\ att_fail.step # "login"

C16_Witness ==
    /\ pc = "set"
    /\ call.op = "notarize"
    /\ attempts = 2
    /\ sleeps = 1
    /\ last_exc = TimedOut
    /\ trail = <<"login">>
    /\ session = "db"

\* in this step no revision of the ledger is changed or removed, and every
\* revision added is the write of another client
OnlyOthersWrite ==
    /\ DOMAIN ledger' = DOMAIN ledger
    /\ \A k \in DOMAIN ledger :
          /\ Len(ledger'[k]) >= Len(ledger[k])
          /\ \A i \in 1..Len(ledger'[k]) :
                IF i <= Len(ledger[k])
                THEN ledger'[k][i] = ledger[k][i]
                ELSE ledger'[k][i].by = "other"

\* C17: a call of authenticate, authenticate_file or authenticate_git_repo,
\* from its beginning to its end and through every retry, never is at a
\* verifiedSet and has issued none, and no step of it changes the ledger:
\* the keys and the revisions of every key stay what they were, but for what
\* other clients append.
C17_AuthenticateNeverWrites ==
    [][call'.op \in AuthenticateOps =>
          /\ pc' # "set"
          /\ nsets' = 0
          /\ write_tx' = 0
          /\ OnlyOthersWrite]_vars

C17_Witness ==
    /\ pc = "done"
    /\ call.op = "authenticate_git_repo"
    /\ attempts = 2
    /\ sleeps = 1
    /\ result.kind = "record"
    /\ nsets = 0
    /\ Writes = MaxArtifactWrites

\* the revisions this instance wrote
SelfWrites ==
    {<<k, i>> \in LedgerKeys \X (1..MaxWrites + 1) :
        i <= Len(ledger[k]) /\ ledger[k][i].by = "self"}

\* C18: a call of notarize issues at most one verifiedSet, however many
\* attempts it makes: an attempt is followed by a retry only before it has
\* issued its verifiedSet, so the call adds at most one revision to its key.
C18_AtMostOneSet ==
    call.op \in NotarizeOps =>
        /\ nsets <= 1
        /\ pc \in {"sleep", "loop", "login"} => nsets = 0 /\ write_tx = 0
        /\ (attempts >= 2 /\ nsets = 1) => Len(trail) >= 2 /\ trail[2] = "set"
        /\ Cardinality({w \in SelfWrites :
                            ledger[w[1]][w[2]].tx >= write_tx /\ write_tx # 0})
              <= 1

C18_Witness ==
    /\ pc = "done"
    /\ call.op = "notarize"
    /\ attempts = 2
    /\ sleeps = 1
    /\ nsets = 1
    /\ write_tx # 0
    /\ result.kind = "record"

\* C19: a notarize(key, value) call whose write succeeded and that returns
\* a record returns its own write, whatever other clients write to the key
\* meanwhile: the value is the one it wrote, and the transaction and the
\* revision are those of its verifiedSet.
C19_ReadsOwnWrite ==
    (/\ pc = "done"
     /\ call.op = "notarize"
     /\ write_tx # 0
     /\ result.kind = "record") =>
        /\ result.id = write_tx
        /\ ledger[call.key][result.revision].tx = write_tx
        /\ result.value = JsonLoads(encode(call.value))

\* C20: the record written by notarize_git_repo, whatever the caller's
\* metadata, has under Metadata.git the git block extracted from the
\* repository, and its Hash and its key are hash_content of the JSON of the
\* Metadata.git of that record.
C20_GitBlockAndHash ==
    (JustWritten /\ call.op = "notarize_git_repo") =>
        /\ Written.Metadata["git"] = GitBlock(call.path)
        /\ Written.Hash = hash_content(JsonDumps(Written.Metadata["git"]))
        /\ call.key = Written.Hash

====
